---- MODULE Spec2Model ----
(***************************************************************************)
(* Model of the asset-inventory ingestion (index_data.py) and of the       *)
(* transform pipeline (transform_data.py): bulk load keyed by hostname,    *)
(* index provisioning, reindex, scripted enrichment (_update_by_query)     *)
(* and cleansing (_delete_by_query).                                       *)
(*                                                                         *)
(* Strings are sequences of one-character strings, so that strip(),        *)
(* toLowerCase(), substring() and Integer.parseInt() are computed          *)
(* character by character, and field values are tagged records, so that a  *)
(* missing key, a null, a string and an integer are different values.      *)
(***************************************************************************)
EXTENDS Integers, Sequences, FiniteSets, TLC

\* ------------------------------------------------------------------ bounds
MaxStatusLen == 3
MaxDateLen == 4
MaxRows == 2
MaxExtWrites == 1
MaxClockTicks == 1
MaxRuns == 2
FirstYear == 2024

\* ------------------------------------------------------- program constants
chunk_size == 2000

\* ------------------------------------------------------------ field values
Absent == [k |-> "absent", s |-> <<>>, n |-> 0]
Null == [k |-> "null", s |-> <<>>, n |-> 0]
Str(chars) == [k |-> "str", s |-> chars, n |-> 0]
Num(i) == [k |-> "int", s |-> <<>>, n |-> i]

StrUpTo(alpha, len) == UNION {[1..m -> alpha] : m \in 0..len}

s_Unknown == <<"U", "n", "k", "n", "o", "w", "n">>
s_eol == <<"e", "o", "l">>
s_eos == <<"e", "o", "s">>
s_High == <<"H", "i", "g", "h">>
s_Low == <<"L", "o", "w">>
s_EOL == <<"E", "O", "L">>
s_Active == <<"A", "c", "t", "i", "v", "e">>
s_Acme == <<"A", "c", "m", "e">>
s_unknown == <<"u", "n", "k", "n", "o", "w", "n">>
d_2010 == <<"2", "0", "1", "0", "-", "0", "1", "-", "0", "1">>
d_2015 == <<"2", "0", "1", "5", "-", "0", "6", "-", "0", "1">>
d_2020 == <<"2", "0", "2", "0", "-", "0", "1", "-", "0", "1">>
d_2999 == <<"2", "9", "9", "9", "-", "0", "1", "-", "0", "1">>
d_20xx == <<"2", "0", "x", "x", "-", "0", "1", "-", "0", "1">>

\* ------------------------------------------------- Java / Python primitives
UpperAZ == <<"A", "B", "C", "D", "E", "F", "G", "H", "I", "J", "K", "L", "M",
             "N", "O", "P", "Q", "R", "S", "T", "U", "V", "W", "X", "Y", "Z">>
LowerAZ == <<"a", "b", "c", "d", "e", "f", "g", "h", "i", "j", "k", "l", "m",
             "n", "o", "p", "q", "r", "s", "t", "u", "v", "w", "x", "y", "z">>

\* String.toLowerCase() on one character
LowerChar(c) ==
    IF \E i \in 1..26 : UpperAZ[i] = c
    THEN LowerAZ[CHOOSE i \in 1..26 : UpperAZ[i] = c]
    ELSE c

\* String.toLowerCase()
toLowerCase(str) == [i \in 1..Len(str) |-> LowerChar(str[i])]

Digits == <<"0", "1", "2", "3", "4", "5", "6", "7", "8", "9">>
IsDigit(c) == \E i \in 1..10 : Digits[i] = c
DigitVal(c) == (CHOOSE i \in 1..10 : Digits[i] = c) - 1

RECURSIVE DigitsVal(_)
DigitsVal(str) ==
    IF Len(str) = 0 THEN 0
    ELSE 10 * DigitsVal(SubSeq(str, 1, Len(str) - 1)) + DigitVal(str[Len(str)])

\* Integer.parseInt(String): an optional sign, then at least one decimal
\* digit; anything else throws NumberFormatException (ok = FALSE).
parseInt(str) ==
    IF Len(str) = 0 THEN [ok |-> FALSE, v |-> 0]
    ELSE LET signed == str[1] \in {"-", "+"}
             body == IF signed THEN Tail(str) ELSE str
         IN  IF Len(body) = 0 \/ \E i \in 1..Len(body) : ~IsDigit(body[i])
             THEN [ok |-> FALSE, v |-> 0]
             ELSE [ok |-> TRUE,
                   v |-> IF str[1] = "-" THEN 0 - DigitsVal(body) ELSE DigitsVal(body)]

\* String.substring(0, 4): throws StringIndexOutOfBoundsException when the
\* string has fewer than four characters (ok = FALSE).
substring04(str) ==
    IF Len(str) < 4 THEN [ok |-> FALSE, v |-> <<>>]
    ELSE [ok |-> TRUE, v |-> SubSeq(str, 1, 4)]

\* ------------------------------------------------------------ the documents
Doc(h, p, st, d, r, a) ==
    [hostname |-> h,
     operating_system_provider |-> p,
     operating_system_lifecycle_status |-> st,
     operating_system_installation_date |-> d,
     risk_level |-> r,
     system_age_years |-> a]

\* ------------------------------------- the enrichment script (Painless)
\* mutant: the status is compared without being lowercased
ScriptRisk_NoLower(src) ==
    LET st == src.operating_system_lifecycle_status
    IN  IF st.k \notin {"absent", "null"} /\ (st.s = s_eol \/ st.s = s_eos)
        THEN Str(s_High) ELSE Str(s_Low)

\* mutant: lvl has no default, a missing or null status leaves it null
ScriptRisk_NullWhenMissing(src) ==
    LET st == src.operating_system_lifecycle_status
    IN  IF st.k \in {"absent", "null"} THEN Null
        ELSE LET low == toLowerCase(st.s)
             IN  IF low = s_eol \/ low = s_eos THEN Str(s_High) ELSE Str(s_Low)

\* risk_level: 'High' for eol/eos after lowercasing, else 'Low'
ScriptRisk(src) ==
    LET st == src.operating_system_lifecycle_status
    IN  IF st.k # "absent"
        THEN IF st.k # "null"
             THEN LET low == toLowerCase(st.s)
                  IN  IF low = s_eol \/ low = s_eos THEN Str(s_High) ELSE Str(s_Low)
             ELSE Str(s_Low)
        ELSE Str(s_Low)

\* mutant: the difference is stored without the clamp to zero
ScriptAge_NoClamp(src, now_year) ==
    LET d == src.operating_system_installation_date
    IN  IF d.k \notin {"absent", "null"} /\ d.s # s_Unknown
        THEN LET sub == substring04(d.s)
                 installYear == parseInt(sub.v)
             IN  IF sub.ok /\ installYear.ok THEN Num(now_year - installYear.v) ELSE Null
        ELSE Null

\* mutant: an age already stored is incremented instead of recomputed
ScriptAge_Accumulate(src, now_year) ==
    LET d == src.operating_system_installation_date
        prev == src.system_age_years
    IN  IF d.k \notin {"absent", "null"} /\ d.s # s_Unknown
        THEN LET sub == substring04(d.s)
                 installYear == parseInt(sub.v)
                 years == now_year - installYear.v
             IN  IF sub.ok /\ installYear.ok
                 THEN IF prev.k = "int" THEN Num(prev.n + 1)
                      ELSE Num(IF years < 0 THEN 0 ELSE years)
                 ELSE Null
        ELSE Null

\* system_age_years from the first four characters of the date string
ScriptAge(src, now_year) ==
    LET d == src.operating_system_installation_date
    IN  IF d.k \notin {"absent", "null"} /\ d.s # s_Unknown
        THEN LET sub == substring04(d.s)
                 installYear == parseInt(sub.v)
                 years == now_year - installYear.v
             IN  IF sub.ok /\ installYear.ok
                 THEN Num(IF years < 0 THEN 0 ELSE years)
                 ELSE Null
        ELSE Null

EnrichScript(src, now_year) ==
    [src EXCEPT !.risk_level = ScriptRisk(src),
                !.system_age_years = ScriptAge(src, now_year)]

\* ------------------------------------------------------------------- state
VARIABLES
    sdoc,       \* script check: the document source the script is applied to
    snow,       \* script check: params.now_year
    sout,       \* script check: the document source after the script
    sran,       \* script check: the script has run
    rows,       \* the rows of the CSV file, in order
    csvExists,  \* CSV_PATH.exists()
    lpc,        \* index_data.main: position
    exitCode,   \* index_data.main: exit status of the last run (-1: running)
    indexed,    \* index_data.main: the logged "Indexed actions" count (-1: none)
    runLog,     \* per finished run of index_data: exit status and document count
    srcExists,  \* the source index exists
    srcDocs,    \* documents of the source index: [id, src, ver]
    autoId,     \* next server-assigned document id
    calls,      \* requests issued to the store, in order
    pc,         \* transform_data.main: position
    caller,     \* who invokes enrich_fields: "main", or "twice" (two calls in a row)
    trace,      \* stage calls, returns and raises of the pipeline, in order
    dstExists,  \* the destination index exists
    dstDocs,    \* documents of the destination index: [id, src, ver]
    clock,      \* the year of date.today()
    now_year,   \* params.now_year of the running enrichment
    scan,       \* documents read by the running _by_query pass, not yet processed
    stats,      \* response of the last _by_query pass: updated, deleted, conflicts
    extWritten, \* ids written by another client during the running pass
    extWrites,  \* number of writes by another client so far
    passes      \* per finished enrich_fields call: its now_year and the derived fields

scriptVars == <<sdoc, snow, sout, sran>>
loadVars == <<rows, csvExists, lpc, exitCode, indexed, runLog>>
storeVars == <<srcExists, srcDocs, autoId, calls>>
pipeVars == <<pc, caller, trace, dstExists, dstDocs, clock, now_year, scan, stats,
              extWritten, extWrites, passes>>
vars == <<scriptVars, loadVars, storeVars, pipeVars>>

\* ------------------------------------------------------ index_data.py
Whitespace == {" ", "\t", "\n"}

RECURSIVE lstrip(_)
lstrip(str) ==
    IF Len(str) > 0 /\ str[1] \in Whitespace THEN lstrip(Tail(str)) ELSE str

RECURSIVE rstrip(_)
rstrip(str) ==
    IF Len(str) > 0 /\ str[Len(str)] \in Whitespace
    THEN rstrip(SubSeq(str, 1, Len(str) - 1))
    ELSE str

\* str.strip()
strip(str) == rstrip(lstrip(str))

NoId == [auto |-> FALSE, none |-> TRUE, s |-> <<>>, n |-> 0]
KeyId(chars) == [auto |-> FALSE, none |-> FALSE, s |-> chars, n |-> 0]
AutoId(i) == [auto |-> TRUE, none |-> FALSE, s |-> <<>>, n |-> i]

\* mutant: the action carries no _id at all
doc_id_NoKey(row) == NoId

\* mutant: the hostname is used as it stands, not stripped
doc_id_NoStrip(row) ==
    LET h == IF row.hostname.k = "str" THEN row.hostname.s ELSE <<>>
    IN  IF h = <<>> THEN NoId ELSE KeyId(h)

\* doc_id = (row.get("hostname") or "").strip() or None
doc_id(row) ==
    LET h == IF row.hostname.k = "str" THEN row.hostname.s ELSE <<>>
        stripped == strip(h)
    IN  IF stripped = <<>> THEN NoId ELSE KeyId(stripped)

\* one "index" action per row, in order; _source is the row itself
actions_from_rows(rs) ==
    [i \in 1..Len(rs) |-> [op_type |-> "index", id |-> doc_id(rs[i]), source |-> rs[i]]]

\* The store applies one "index" operation: with an _id it creates or
\* replaces that document, without one it creates a document under a fresh
\* server-assigned id.
IndexOp(st, act) ==
    IF act.id.none
    THEN [docs |-> st.docs \cup {[id |-> AutoId(st.auto), src |-> act.source, ver |-> 1]},
          auto |-> st.auto + 1]
    ELSE LET old == {d \in st.docs : d.id = act.id}
             ver == IF old = {} THEN 1 ELSE (CHOOSE d \in old : TRUE).ver + 1
         IN  [docs |-> (st.docs \ old) \cup {[id |-> act.id, src |-> act.source, ver |-> ver]},
              auto |-> st.auto]

\* helpers.bulk(es, actions, chunk_size=2000) with its default
\* raise_on_error=True: the actions are sent chunk by chunk; the store
\* applies every operation of a chunk that it does not reject (rejected:
\* the positions the store rejects); after the first chunk with a rejected
\* operation BulkIndexError is raised and no further chunk is sent.
RECURSIVE BulkFrom(_, _, _, _, _)
BulkFrom(st, acts, rejected, i, ok) ==
    IF i > Len(acts) THEN [docs |-> st.docs, auto |-> st.auto, ok |-> ok, raised |-> FALSE]
    ELSE LET chunkNo == (i - 1) \div chunk_size
             chunkLo == chunkNo * chunk_size + 1
             chunkHi == IF chunkLo + chunk_size - 1 < Len(acts)
                        THEN chunkLo + chunk_size - 1 ELSE Len(acts)
             st1 == IF i \in rejected THEN st ELSE IndexOp(st, acts[i])
             ok1 == IF i \in rejected THEN ok ELSE ok + 1
         IN  IF i = chunkHi /\ \E j \in chunkLo..chunkHi : j \in rejected
             THEN [docs |-> st1.docs, auto |-> st1.auto, ok |-> ok1, raised |-> TRUE]
             ELSE BulkFrom(st1, acts, rejected, i + 1, ok1)

bulk(st, acts, rejected) == BulkFrom(st, acts, rejected, 1, 0)

\* what one finished run of index_data left behind
RunEntry(exit, count, applied, rejected) ==
    [exit |-> exit, count |-> count, applied |-> applied, rejected |-> rejected]

\* main, lines 125-127: a missing CSV file ends the run with status 1
MainCheckCsv ==
    /\ lpc = "start"
    /\ IF csvExists
       THEN lpc' = "ensure" /\ UNCHANGED <<exitCode, runLog>>
       ELSE /\ lpc' = "exit"
            /\ exitCode' = 1
            /\ runLog' = Append(runLog, RunEntry(1, Cardinality(srcDocs), 0, 0))
    /\ UNCHANGED <<rows, csvExists, indexed, scriptVars, storeVars, pipeVars>>

\* ensure_index: the existence query may raise, and then exists = False;
\* the index is created when exists is false. An exception of create is
\* not caught anywhere, so the interpreter ends the run with status 1.
EnsureIndexBody(existsRaises, createRaises) ==
    LET exists == IF existsRaises THEN FALSE ELSE srcExists
        q == [op |-> "exists", index |-> "src",
              res |-> IF existsRaises THEN "raise" ELSE IF srcExists THEN "true" ELSE "false"]
        \* creating an index that already exists is rejected by the store
        createFails == createRaises \/ srcExists
        c == [op |-> "create", index |-> "src", res |-> IF createFails THEN "raise" ELSE "ok"]
    IN  IF ~exists
        THEN /\ calls' = calls \o <<q, c>>
             /\ IF createFails
                THEN /\ lpc' = "exit"
                     /\ exitCode' = 1
                     /\ runLog' = Append(runLog, RunEntry(1, Cardinality(srcDocs), 0, 0))
                     /\ UNCHANGED srcExists
                ELSE /\ lpc' = "bulk"
                     /\ srcExists' = TRUE
                     /\ UNCHANGED <<exitCode, runLog>>
        ELSE /\ calls' = Append(calls, q)
             /\ lpc' = "bulk"
             /\ UNCHANGED <<srcExists, exitCode, runLog>>

ensure_index ==
    /\ lpc = "ensure"
    /\ \E existsRaises \in BOOLEAN, createRaises \in BOOLEAN :
           EnsureIndexBody(existsRaises, createRaises)
    /\ UNCHANGED <<rows, csvExists, indexed, srcDocs, autoId, scriptVars, pipeVars>>

\* main, lines 132-148: the bulk load. BulkIndexError and a transport
\* failure are both caught by "except Exception" and end the run with
\* status 2; only a load without any rejected operation logs the count.
MainBulkBody(unreachable, rejected) ==
    LET acts == actions_from_rows(rows)
        r == bulk([docs |-> srcDocs, auto |-> autoId], acts, rejected)
    IN  IF unreachable
        THEN /\ calls' = Append(calls, [op |-> "bulk", index |-> "src", res |-> "raise"])
             /\ exitCode' = 2
             /\ runLog' = Append(runLog, RunEntry(2, Cardinality(srcDocs), 0, 0))
             /\ UNCHANGED <<indexed, srcDocs, autoId>>
        ELSE /\ calls' = Append(calls, [op |-> "bulk", index |-> "src",
                                         res |-> IF r.raised THEN "errors" ELSE "ok"])
             /\ srcDocs' = r.docs
             /\ autoId' = r.auto
             /\ indexed' = IF r.raised THEN indexed ELSE r.ok
             /\ exitCode' = IF r.raised THEN 2 ELSE 0
             /\ runLog' = Append(runLog, RunEntry(IF r.raised THEN 2 ELSE 0, Cardinality(r.docs),
                                                   r.ok, Cardinality(rejected)))

MainBulk ==
    /\ lpc = "bulk"
    /\ \E unreachable \in BOOLEAN, rejected \in SUBSET (1..Len(rows)) :
           MainBulkBody(unreachable, rejected)
    /\ lpc' = "exit"
    /\ UNCHANGED <<rows, csvExists, srcExists, scriptVars, pipeVars>>

\* the script is run again on the same CSV file
RunAgain ==
    /\ lpc = "exit"
    /\ Len(runLog) < MaxRuns
    /\ lpc' = "start"
    /\ exitCode' = -1
    /\ indexed' = -1
    /\ UNCHANGED <<rows, csvExists, runLog, scriptVars, storeVars, pipeVars>>

\* ------------------------------------------------------ transform_data.py
Call(stage) == [stage |-> stage, ev |-> "call"]
Return(stage) == [stage |-> stage, ev |-> "return"]
Raise(stage) == [stage |-> stage, ev |-> "raise"]
Complete == [stage |-> "main", ev |-> "complete"]

NoStats == [updated |-> 0, deleted |-> 0, conflicts |-> 0]

\* the fields the destination mapping declares (lines 52-65); "dynamic": True
\* only adds fields of a document that the mapping does not have yet
dest_properties ==
    {"hostname", "country", "operating_system", "operating_system_provider",
     "operating_system_lifecycle_status", "operating_system_installation_date",
     "risk_level", "system_age_years"}

\* the value the index holds for a field path of a document: nothing for a
\* path that is no field of the mapping
IndexedValue(src, field) ==
    IF field \in dest_properties /\ field \in DOMAIN src THEN src[field] ELSE Absent

\* {"exists": {"field": f}}: the document has an indexed, non-null value
\* (an empty string is a value)
ExistsQuery(src, field) == IndexedValue(src, field).k \in {"str", "int"}

\* {"term": {f: v}}: the indexed value of f is exactly v
TermQuery(src, field, chars) ==
    IndexedValue(src, field).k = "str" /\ IndexedValue(src, field).s = chars

\* delete_query, lines 142-152: should [must_not exists hostname,
\* term operating_system_provider.keyword = "Unknown"], minimum_should_match 1
delete_query(src) ==
    \/ ~ExistsQuery(src, "hostname")
    \/ TermQuery(src, "operating_system_provider.keyword", s_Unknown)

\* ensure_dest_index, lines 69-74: an exception of exists or of create
\* propagates to main
EnsureDestBody(existsRaises, createRaises) ==
    LET st == "ensure_dest_index"
        q(res) == [op |-> "exists", index |-> "dst", res |-> res]
        c(res) == [op |-> "create", index |-> "dst", res |-> res]
    IN  IF existsRaises
        THEN /\ calls' = Append(calls, q("raise"))
             /\ trace' = trace \o <<Call(st), Raise(st)>>
             /\ pc' = "failed"
             /\ UNCHANGED dstExists
        ELSE IF ~dstExists
        THEN IF createRaises
             THEN /\ calls' = calls \o <<q("false"), c("raise")>>
                  /\ trace' = trace \o <<Call(st), Raise(st)>>
                  /\ pc' = "failed"
                  /\ UNCHANGED dstExists
             ELSE /\ calls' = calls \o <<q("false"), c("ok")>>
                  /\ trace' = trace \o <<Call(st), Return(st)>>
                  /\ pc' = "reindex"
                  /\ dstExists' = TRUE
        ELSE /\ calls' = Append(calls, q("true"))
             /\ trace' = trace \o <<Call(st), Return(st)>>
             /\ pc' = "reindex"
             /\ UNCHANGED dstExists

ensure_dest_index ==
    /\ pc = "ensure"
    /\ \E existsRaises \in BOOLEAN, createRaises \in BOOLEAN :
           EnsureDestBody(existsRaises, createRaises)
    /\ UNCHANGED <<caller, dstDocs, clock, now_year, scan, stats, extWritten, extWrites,
                   passes, srcExists, srcDocs, autoId, scriptVars, loadVars>>

\* the store copies one document into the destination under its own id
CopyDoc(docs, d) ==
    LET old == {e \in docs : e.id = d.id}
        ver == IF old = {} THEN 1 ELSE (CHOOSE e \in old : TRUE).ver + 1
    IN  (docs \ old) \cup {[id |-> d.id, src |-> d.src, ver |-> ver]}

RECURSIVE CopyAll(_, _)
CopyAll(docs, from) ==
    IF from = {} THEN docs
    ELSE LET d == CHOOSE e \in from : TRUE
         IN  CopyAll(CopyDoc(docs, d), from \ {d})

\* mutant: an exception of the reindex request is swallowed
ReindexBody_Swallow(raises) ==
    LET st == "reindex"
    IN  IF raises \/ ~srcExists
        THEN /\ trace' = trace \o <<Call(st), Raise(st)>>
             /\ pc' = "enrich"
             /\ UNCHANGED dstDocs
        ELSE /\ trace' = trace \o <<Call(st), Return(st)>>
             /\ pc' = "enrich"
             /\ dstDocs' = CopyAll(dstDocs, srcDocs)

\* reindex, lines 76-86: every document of the source is written to the
\* destination; a missing source (NotFoundError) or a transport failure raises
ReindexBody(raises) ==
    LET st == "reindex"
    IN  IF raises \/ ~srcExists
        THEN /\ trace' = trace \o <<Call(st), Raise(st)>>
             /\ pc' = "failed"
             /\ UNCHANGED dstDocs
        ELSE /\ trace' = trace \o <<Call(st), Return(st)>>
             /\ pc' = "enrich"
             /\ dstDocs' = CopyAll(dstDocs, srcDocs)

reindex ==
    /\ pc = "reindex"
    /\ \E raises \in BOOLEAN : ReindexBody(raises)
    /\ calls' = Append(calls, [op |-> "reindex", index |-> "dst", res |-> "sent"])
    /\ UNCHANGED <<caller, dstExists, clock, now_year, scan, stats, extWritten, extWrites,
                   passes, srcExists, srcDocs, autoId, scriptVars, loadVars>>

\* enrich_fields, lines 89-138: now_year is read from the clock when the
\* request body is built; _update_by_query then reads the documents that
\* match match_all
EnrichBeginBody(raises) ==
    LET st == "enrich_fields"
    IN  IF raises
        THEN /\ trace' = trace \o <<Call(st), Raise(st)>>
             /\ pc' = "failed"
             /\ UNCHANGED <<scan, stats, extWritten>>
        ELSE /\ trace' = Append(trace, Call(st))
             /\ pc' = "enrich_scan"
             /\ scan' = dstDocs
             /\ stats' = NoStats
             /\ extWritten' = {}

EnrichBegin ==
    /\ pc = "enrich"
    /\ now_year' = clock
    /\ \E raises \in BOOLEAN : EnrichBeginBody(raises)
    /\ calls' = Append(calls, [op |-> "update_by_query", index |-> "dst", res |-> "sent"])
    /\ UNCHANGED <<caller, dstExists, dstDocs, clock, extWrites, passes,
                   srcExists, srcDocs, autoId, scriptVars, loadVars>>

\* _update_by_query on one document it has read: the script runs on the
\* source as read and the result is written only if the document still has
\* the version that was read; "conflicts": "proceed" counts a version
\* conflict and goes on
UpdateDoc(d) ==
    LET cur == {e \in dstDocs : e.id = d.id /\ e.ver = d.ver}
    IN  IF cur # {}
        THEN /\ dstDocs' = (dstDocs \ cur) \cup
                           {[id |-> d.id, src |-> EnrichScript(d.src, now_year), ver |-> d.ver + 1]}
             /\ stats' = [stats EXCEPT !.updated = @ + 1]
        ELSE /\ stats' = [stats EXCEPT !.conflicts = @ + 1]
             /\ UNCHANGED dstDocs

EnrichDoc ==
    /\ pc = "enrich_scan"
    /\ \E d \in scan :
           /\ UpdateDoc(d)
           /\ scan' = scan \ {d}
    /\ UNCHANGED <<pc, caller, trace, dstExists, clock, now_year, extWritten, extWrites,
                   passes, storeVars, scriptVars, loadVars>>

Derived(docs) ==
    {[id |-> d.id, risk_level |-> d.src.risk_level,
      system_age_years |-> d.src.system_age_years] : d \in docs}

\* enrich_fields returns once every document read has been processed
EnrichEnd ==
    /\ pc = "enrich_scan"
    /\ scan = {}
    /\ trace' = Append(trace, Return("enrich_fields"))
    /\ passes' = Append(passes, [year |-> now_year, conflicts |-> stats.conflicts,
                                 derived |-> Derived(dstDocs)])
    /\ pc' = IF caller = "main" THEN "delete"
             ELSE IF Len(passes) + 1 < 2 THEN "enrich" ELSE "done"
    /\ UNCHANGED <<caller, dstExists, dstDocs, clock, now_year, scan, stats, extWritten,
                   extWrites, storeVars, scriptVars, loadVars>>

\* delete_bad_records, lines 142-162: _delete_by_query reads the documents
\* that match delete_query
DeleteBeginBody(raises) ==
    LET st == "delete_bad_records"
    IN  IF raises
        THEN /\ trace' = trace \o <<Call(st), Raise(st)>>
             /\ pc' = "failed"
             /\ UNCHANGED <<scan, stats, extWritten>>
        ELSE /\ trace' = Append(trace, Call(st))
             /\ pc' = "delete_scan"
             /\ scan' = {d \in dstDocs : delete_query(d.src)}
             /\ stats' = NoStats
             /\ extWritten' = {}

DeleteBegin ==
    /\ pc = "delete"
    /\ \E raises \in BOOLEAN : DeleteBeginBody(raises)
    /\ calls' = Append(calls, [op |-> "delete_by_query", index |-> "dst", res |-> "sent"])
    /\ UNCHANGED <<caller, dstExists, dstDocs, clock, now_year, extWrites, passes,
                   srcExists, srcDocs, autoId, scriptVars, loadVars>>

\* _delete_by_query on one document it has read, conflicts="proceed"
DeleteOne(d) ==
    LET cur == {e \in dstDocs : e.id = d.id /\ e.ver = d.ver}
    IN  IF cur # {}
        THEN /\ dstDocs' = dstDocs \ cur
             /\ stats' = [stats EXCEPT !.deleted = @ + 1]
        ELSE /\ stats' = [stats EXCEPT !.conflicts = @ + 1]
             /\ UNCHANGED dstDocs

DeleteDoc ==
    /\ pc = "delete_scan"
    /\ \E d \in scan :
           /\ DeleteOne(d)
           /\ scan' = scan \ {d}
    /\ UNCHANGED <<pc, caller, trace, dstExists, clock, now_year, extWritten, extWrites,
                   passes, storeVars, scriptVars, loadVars>>

\* delete_bad_records returns and main logs "All transformations complete"
DeleteEnd ==
    /\ pc = "delete_scan"
    /\ scan = {}
    /\ trace' = trace \o <<Return("delete_bad_records"), Complete>>
    /\ pc' = "complete"
    /\ UNCHANGED <<caller, dstExists, dstDocs, clock, now_year, scan, stats, extWritten,
                   extWrites, passes, storeVars, scriptVars, loadVars>>

\* another client of the store rewrites a document of the destination while
\* a _by_query pass is running
ExternalWrite ==
    /\ pc \in {"enrich_scan", "delete_scan"}
    /\ extWrites < MaxExtWrites
    /\ \E d \in dstDocs :
         \E st \in {d.src.operating_system_lifecycle_status, Str(s_EOL)} :
           /\ dstDocs' = (dstDocs \ {d}) \cup
                         {[id |-> d.id,
                           src |-> [d.src EXCEPT !.operating_system_lifecycle_status = st],
                           ver |-> d.ver + 1]}
           /\ extWritten' = extWritten \cup {d.id}
    /\ extWrites' = extWrites + 1
    /\ UNCHANGED <<pc, caller, trace, dstExists, clock, now_year, scan, stats, passes,
                   storeVars, scriptVars, loadVars>>

\* the calendar year of date.today() advances
ClockTick ==
    /\ clock < FirstYear + MaxClockTicks
    /\ clock' = clock + 1
    /\ UNCHANGED <<pc, caller, trace, dstExists, dstDocs, now_year, scan, stats,
                   extWritten, extWrites, passes, storeVars, scriptVars, loadVars>>

\* the store runs the script of enrich_fields on one document source
RunScript ==
    /\ ~sran
    /\ sout' = EnrichScript(sdoc, snow)
    /\ sran' = TRUE
    /\ UNCHANGED <<sdoc, snow, loadVars, storeVars, pipeVars>>

\* ------------------------------------------------------------ sample data
StatusAlphabet == {"e", "E", "o", "O", "l", "L", "s", "S", "x", " "}
DateAlphabet == {"0", "2", "9", "-", "+", "x"}

StatusValues ==
    {Absent, Null, Str(s_Active)} \cup {Str(w) : w \in StrUpTo(StatusAlphabet, MaxStatusLen)}
DateValues ==
    {Absent, Null, Str(s_Unknown), Str(s_unknown), Str(d_2015), Str(d_2999), Str(d_20xx)}
        \cup {Str(w) : w \in StrUpTo(DateAlphabet, MaxDateLen)}
RiskValues == {Absent, Null, Str(s_High), Str(s_Low)}
NowYears == FirstYear..(FirstYear + MaxClockTicks)

LoadHostnames ==
    {Absent, Str(<<>>), Str(<<" ">>), Str(<<"a">>), Str(<<" ", "a", " ">>), Str(<<"b">>)}
LoadRows == {Doc(h, Str(s_Acme), Str(s_EOL), Str(d_2015), Absent, Absent) : h \in LoadHostnames}

PipeRows ==
    {Doc(Str(<<"a">>), Str(s_Acme), Str(s_EOL), Str(d_2010), Absent, Absent),
     Doc(Str(<<"b">>), Str(s_Acme), Str(s_Active), Str(s_Unknown), Absent, Absent),
     Doc(Str(<<>>), Str(s_Acme), Str(s_EOL), Str(d_2020), Absent, Absent),
     Doc(Str(<<"c">>), Str(s_Unknown), Str(s_Active), Str(d_2015), Absent, Absent),
     Doc(Str(<<"d">>), Str(s_unknown), Str(s_Active), Str(d_2015), Absent, Absent),
     Doc(Absent, Str(s_Acme), Str(s_Active), Str(d_2015), Absent, Absent),
     Doc(Null, Str(s_Unknown), Absent, Absent, Absent, Absent)}

TwiceRows ==
    {Doc(Absent, Str(s_Acme), st, d, prev[1], prev[2]) :
        st \in {Str(s_EOL), Absent},
        d \in {Str(s_Unknown), Str(d_2015), Str(d_2999)},
        prev \in {<<Absent, Absent>>, <<Str(s_High), Num(3)>>}}

\* the documents a load of the rows leaves in an empty index
Loaded(rs) == bulk([docs |-> {}, auto |-> 1], actions_from_rows(rs), {}).docs

\* ----------------------------------------------------------- initial states
ScriptIdle ==
    /\ sdoc = Doc(Absent, Absent, Absent, Absent, Absent, Absent)
    /\ snow = FirstYear
    /\ sout = sdoc
    /\ sran = TRUE

LoadIdle ==
    /\ csvExists = TRUE
    /\ lpc = "idle"
    /\ exitCode = -1
    /\ indexed = -1
    /\ runLog = <<>>

PipeIdle ==
    /\ pc = "idle"
    /\ caller = "main"
    /\ trace = <<>>
    /\ dstExists = FALSE
    /\ dstDocs = {}
    /\ clock = FirstYear
    /\ now_year = FirstYear
    /\ scan = {}
    /\ stats = NoStats
    /\ extWritten = {}
    /\ extWrites = 0
    /\ passes = <<>>

StoreEmpty ==
    /\ srcExists = FALSE
    /\ srcDocs = {}
    /\ autoId = 1
    /\ calls = <<>>

\* the script applied to one document: every lifecycle status
InitRisk ==
    /\ sdoc \in {Doc(Str(<<"a">>), Str(s_Acme), st, d, r, Absent) :
                    st \in StatusValues, d \in {Absent, Str(d_2015)}, r \in RiskValues}
    /\ snow = FirstYear
    /\ sout = sdoc
    /\ sran = FALSE
    /\ rows = <<>>
    /\ LoadIdle /\ StoreEmpty /\ PipeIdle

\* the script applied to one document: every installation date
InitAge ==
    /\ sdoc \in {Doc(Str(<<"a">>), Str(s_Acme), Str(s_EOL), d, Absent, a) :
                    d \in DateValues, a \in {Absent, Num(3)}}
    /\ snow \in NowYears
    /\ sout = sdoc
    /\ sran = FALSE
    /\ rows = <<>>
    /\ LoadIdle /\ StoreEmpty /\ PipeIdle

\* index_data.py is started on a CSV file, the index empty or not yet there
InitLoad ==
    /\ rows \in StrUpTo(LoadRows, MaxRows)
    /\ csvExists \in BOOLEAN
    /\ lpc = "start"
    /\ exitCode = -1
    /\ indexed = -1
    /\ runLog = <<>>
    /\ srcExists \in BOOLEAN
    /\ srcDocs = {}
    /\ autoId = 1
    /\ calls = <<>>
    /\ ScriptIdle /\ PipeIdle

\* transform_data.py is started after a load of the source index (or with
\* the source index missing), the destination empty or not yet there
InitPipeline ==
    /\ rows \in StrUpTo(PipeRows, MaxRows)
    /\ srcExists \in BOOLEAN
    /\ srcDocs = IF srcExists THEN Loaded(rows) ELSE {}
    /\ autoId = Len(rows) + 1
    /\ calls = <<>>
    /\ pc = "ensure"
    /\ caller = "main"
    /\ trace = <<>>
    /\ dstExists \in BOOLEAN
    /\ dstDocs = {}
    /\ clock = FirstYear
    /\ now_year = FirstYear
    /\ scan = {}
    /\ stats = NoStats
    /\ extWritten = {}
    /\ extWrites = 0
    /\ passes = <<>>
    /\ ScriptIdle /\ LoadIdle

\* enrich_fields is called twice in a row on a destination index
InitTwice ==
    /\ rows \in StrUpTo(TwiceRows, MaxRows)
    /\ srcExists = FALSE
    /\ srcDocs = {}
    /\ autoId = Len(rows) + 1
    /\ calls = <<>>
    /\ pc = "enrich"
    /\ caller = "twice"
    /\ trace = <<>>
    /\ dstExists = TRUE
    /\ dstDocs = Loaded(rows)
    /\ clock = FirstYear
    /\ now_year = FirstYear
    /\ scan = {}
    /\ stats = NoStats
    /\ extWritten = {}
    /\ extWrites = 0
    /\ passes = <<>>
    /\ ScriptIdle /\ LoadIdle

\* ----------------------------------------------------------- specifications
NextScript == RunScript
NextLoad == MainCheckCsv \/ ensure_index \/ MainBulk \/ RunAgain
NextPipeline ==
    \/ ensure_dest_index
    \/ reindex
    \/ EnrichBegin
    \/ EnrichDoc
    \/ EnrichEnd
    \/ DeleteBegin
    \/ DeleteDoc
    \/ DeleteEnd
NextConc == NextPipeline \/ ExternalWrite
NextTwice == EnrichBegin \/ EnrichDoc \/ EnrichEnd \/ ClockTick

SpecRisk == InitRisk /\ [][NextScript]_vars
SpecAge == InitAge /\ [][NextScript]_vars
SpecLoad == InitLoad /\ [][NextLoad]_vars
SpecPipeline == InitPipeline /\ [][NextPipeline]_vars
SpecConc == InitPipeline /\ [][NextConc]_vars
SpecTwice == InitTwice /\ [][NextTwice]_vars

\* ------------------------------------------------------------------ claims
HighLow == {Str(s_High), Str(s_Low)}

\* the hostname of a row is missing, null, empty or whitespace only
Keyless(row) ==
    \/ row.hostname.k # "str"
    \/ \A i \in 1..Len(row.hostname.s) : row.hostname.s[i] \in Whitespace

NumKeyless(rs) == Cardinality({i \in 1..Len(rs) : Keyless(rs[i])})

\* t is h without its leading and trailing whitespace
IsTrimOf(t, h) ==
    \E i \in 1..(Len(h) + 1), j \in 0..Len(h) :
        /\ t = SubSeq(h, i, j)
        /\ \A k \in 1..Len(h) : (k < i \/ k > j) => h[k] \in Whitespace
        /\ t # <<>> => (t[1] \notin Whitespace /\ t[Len(t)] \notin Whitespace)

\* C1 as stated: two successful loads of the same rows into an empty index
\* leave as many documents as one load, whatever the hostnames are.
C1_Original ==
    (Len(runLog) >= 2 /\ runLog[1].exit = 0 /\ runLog[2].exit = 0)
        => runLog[2].count = runLog[1].count

\* C1 amended: a successful load that follows a successful load of the same
\* rows adds exactly one document per row whose hostname is missing, empty
\* or whitespace only (such a row gets a server-assigned id), and none when
\* every row has a hostname that is non-empty after trimming.
C1_IdempotentLoadKeyed ==
    \A i \in 1..(Len(runLog) - 1) :
        (runLog[i].exit = 0 /\ runLog[i + 1].exit = 0)
            => runLog[i + 1].count = runLog[i].count + NumKeyless(rows)

\* C1 witness: two successful loads of two rows with distinct hostnames, one
\* of them padded with whitespace, leave two documents both times
C1_Witness ==
    /\ Len(runLog) = 2
    /\ runLog[1].exit = 0 /\ runLog[2].exit = 0
    /\ NumKeyless(rows) = 0
    /\ \E i \in 1..Len(rows) : rows[i].hostname = Str(<<" ", "a", " ">>)
    /\ runLog[1].count = 2 /\ runLog[2].count = 2

\* C2: once delete_bad_records has returned, every document left in the
\* destination index has a non-empty hostname and a provider other than
\* "Unknown".
C2_Cleansed ==
    pc = "complete"
        => \A d \in dstDocs :
               /\ d.src.hostname.k = "str" /\ d.src.hostname.s # <<>>
               /\ d.src.operating_system_provider # Str(s_Unknown)

\* C3: system_age_years is null for a missing, null or "Unknown" date, null
\* when the date is shorter than four characters or its first four
\* characters are no integer, and otherwise max(0, now_year - Y), Y the
\* integer of the first four characters; it is never negative.
C3_AgeDerivation ==
    sran =>
        LET d == sdoc.operating_system_installation_date
            a == sout.system_age_years
            four == SubSeq(d.s, 1, 4)
            allDigits == \A i \in 1..4 : IsDigit(four[i])
            Y == IF allDigits
                 THEN 1000 * DigitVal(four[1]) + 100 * DigitVal(four[2])
                          + 10 * DigitVal(four[3]) + DigitVal(four[4])
                 ELSE parseInt(four).v
        IN  /\ a.k \in {"null", "int"}
            /\ a.k = "int" => a.n >= 0
            /\ IF d.k \in {"absent", "null"} \/ d.s = s_Unknown THEN a = Null
               ELSE IF Len(d.s) < 4 THEN a = Null
               ELSE IF ~allDigits /\ ~parseInt(four).ok THEN a = Null
               ELSE a = Num(IF snow - Y > 0 THEN snow - Y ELSE 0)

\* C3 witness: a date in the year 2999 gives the age 0
C3_Witness ==
    /\ sran
    /\ sdoc.operating_system_installation_date = Str(d_2999)
    /\ sout.system_age_years = Num(0)

\* C4: risk_level is "High" exactly when the lifecycle status is a string
\* that reads eol or eos in any mix of upper and lower case, and "Low"
\* otherwise (status missing or null included), whatever risk_level was.
C4_RiskDerivation ==
    sran =>
        LET st == sdoc.operating_system_lifecycle_status
            high == /\ st.k = "str"
                    /\ Len(st.s) = 3
                    /\ st.s[1] \in {"e", "E"}
                    /\ st.s[2] \in {"o", "O"}
                    /\ st.s[3] \in {"l", "L", "s", "S"}
        IN  sout.risk_level = IF high THEN Str(s_High) ELSE Str(s_Low)

\* C4 witness: the status "Eos" on a document marked "Low" gives "High"
C4_Witness ==
    /\ sran
    /\ sdoc.operating_system_lifecycle_status = Str(<<"E", "o", "s">>)
    /\ sdoc.risk_level = Str(s_Low)
    /\ sout.risk_level = Str(s_High)

\* C5 as stated: after two calls of enrich_fields in a row, each with the
\* year of its own start, every document has the derived fields it had
\* after the first call.
C5_Original ==
    pc = "done" => passes[2].derived = passes[1].derived

\* C5 amended: after two calls of enrich_fields in a row every document has
\* the risk_level it had after the first call, and the system_age_years it
\* had after the first call whenever both calls read the same current year.
C5_IdempotentSameYear ==
    Len(passes) >= 2 =>
        /\ {[id |-> e.id, risk_level |-> e.risk_level] : e \in passes[2].derived}
               = {[id |-> e.id, risk_level |-> e.risk_level] : e \in passes[1].derived}
        /\ passes[1].year = passes[2].year => passes[2].derived = passes[1].derived

\* C5 witness: two calls in the same year on a document whose stored age
\* was 3 and whose date gives a positive age
C5_Witness ==
    /\ pc = "done"
    /\ passes[1].year = passes[2].year
    /\ \E i \in 1..Len(rows) : rows[i].system_age_years = Num(3)
    /\ \E e \in passes[2].derived : e.system_age_years.k = "int" /\ e.system_age_years.n > 3

\* C6: a load in which some operations were applied and others rejected
\* does not end with exit status 2, and reports the number applied.
C6_PartialReported ==
    \A i \in 1..Len(runLog) :
        (runLog[i].applied > 0 /\ runLog[i].rejected > 0)
            => /\ runLog[i].exit # 2
               /\ (i = Len(runLog) /\ lpc = "exit") => indexed = runLog[i].applied

\* C7: an existence query that raised, or that answered true, is never
\* followed by a create request.
C7_NoCreateUnlessAbsent ==
    \A i \in 1..(Len(calls) - 1) :
        (calls[i].op = "exists" /\ calls[i].res \in {"raise", "true"})
            => calls[i + 1].op # "create"

\* C8: the stages are called in the order ensure_dest_index, reindex,
\* enrich_fields, delete_bad_records, each after the previous one returned;
\* a stage that raises is the last thing that happens, and completion is
\* reported only after all four returned.
StageOrder == <<"ensure_dest_index", "reindex", "enrich_fields", "delete_bad_records">>

C8_OrderAndAbort ==
    /\ Len(trace) <= 9
    /\ \A i \in 1..Len(trace) :
        /\ (i % 2 = 1 /\ i < 9) => trace[i] = Call(StageOrder[(i + 1) \div 2])
        /\ (i % 2 = 0) => /\ trace[i].stage = StageOrder[i \div 2]
                          /\ trace[i].ev \in {"return", "raise"}
        /\ i = 9 => trace[i] = Complete
        /\ trace[i].ev = "raise" => (i = Len(trace) /\ pc = "failed")
    /\ pc = "failed" => (Len(trace) > 0 /\ trace[Len(trace)].ev = "raise")
    /\ pc = "complete" <=> (Len(trace) = 9)

\* C8 witness: enrich_fields raised after two stages returned
C8_Witness ==
    /\ pc = "failed"
    /\ Len(trace) = 6
    /\ trace[6] = Raise("enrich_fields")

\* C9 as stated: when enrich_fields has returned, every document of the
\* index has risk_level "High" or "Low", also when another client wrote a
\* document during the pass.
C9_Original ==
    pc = "delete" => \A d \in dstDocs : d.src.risk_level \in HighLow

\* C9 amended: when enrich_fields has returned, every document that no other
\* client wrote during the pass has risk_level "High" or "Low"; a document
\* written by another client may have been skipped on a version conflict,
\* and the pass still ran to its end, every document it read either
\* updated or counted as a conflict.
C9_EnrichedUnlessRewritten ==
    pc = "delete" =>
        /\ \A d \in dstDocs : d.id \in extWritten \/ d.src.risk_level \in HighLow
        /\ stats.updated + stats.conflicts = Cardinality(dstDocs)
        /\ stats.conflicts <= Cardinality(extWritten)

\* C9 witness: the pass returned with one version conflict and one update
C9_Witness ==
    /\ pc = "delete"
    /\ stats.conflicts = 1
    /\ stats.updated = 1
    /\ \E d \in dstDocs : d.src.risk_level = Absent

\* C10 as stated: a row with a non-empty hostname gets exactly that
\* hostname as _id, and only a row without hostname or with an empty one
\* gets none.
C10_Original ==
    lpc = "exit" =>
        \A d \in srcDocs :
            LET h == d.src.hostname
            IN  /\ (h.k = "str" /\ h.s # <<>>) => d.id = KeyId(h.s)
                /\ d.id.auto => (h.k # "str" \/ h.s = <<>>)

\* C10 amended: the _id of a row is its hostname without leading and
\* trailing whitespace when that is non-empty, and there is no _id exactly
\* when the hostname is missing, empty or whitespace only; the stored
\* documents carry these ids, so two rows share an _id only if their
\* trimmed hostnames are equal.
C10_IdIsTrimmedHostname ==
    /\ \A i \in 1..Len(rows) :
        LET h == rows[i].hostname
            a == actions_from_rows(rows)[i]
        IN  /\ a.source = rows[i]
            /\ a.id.none <=> Keyless(rows[i])
            /\ ~a.id.none => (~a.id.auto /\ a.id.s # <<>> /\ IsTrimOf(a.id.s, h.s))
    /\ \A d \in srcDocs :
        IF Keyless(d.src) THEN d.id.auto
        ELSE ~d.id.auto /\ ~d.id.none /\ IsTrimOf(d.id.s, d.src.hostname.s)

\* C10 witness: the row with hostname " a " is stored under the id "a"
C10_Witness ==
    /\ lpc = "exit"
    /\ \E d \in srcDocs : d.src.hostname = Str(<<" ", "a", " ">>) /\ d.id = KeyId(<<"a">>)

====
